---- MODULE Spec2Model ----
(***************************************************************************)
(* TruidIDE development preview server (src-tauri/src/templates/server.py) *)
(* as a state machine: main(), find_free_port() and CustomHandler, with    *)
(* the other processes of the host binding and releasing ports around it.  *)
(*                                                                         *)
(* Three specifications:                                                   *)
(*   Spec      one run of main() (FairSpec adds the fairness of the        *)
(*             process's own steps);                                       *)
(*   SpecFFP   one call find_free_port(start_port, max_attempts) for       *)
(*             arguments drawn from StartPorts x 0..MaxAttemptsArg;        *)
(*   SpecReq   the request handler applied to requests drawn from          *)
(*             AllRequests while the server is serving.                    *)
(*                                                                         *)
(* What server.py inherits or calls (socket.bind, HTTPServer, serve_forever *)
(* and shutdown of socketserver, SimpleHTTPRequestHandler of http.server,  *)
(* posixpath.normpath) is modelled after CPython 3.11, at the place where  *)
(* server.py uses it.                                                      *)
(***************************************************************************)
EXTENDS Integers, Sequences, FiniteSets

VARIABLES
    pc,              \* position of the process (see the actions)
    caller,          \* who called find_free_port: "main" or "unit"
    indexExists,     \* Path('index.html').exists() in the working directory
    occupied,        \* ports bound and listened on by other processes
    startPort,       \* find_free_port: argument start_port
    maxAttempts,     \* find_free_port: argument max_attempts
    port,            \* find_free_port: the loop variable
    outcome,         \* find_free_port: outcome of the bind of the open probe
    probeSocks,      \* ports of the probe sockets that are open
    probes,          \* history: <<port, outcome>> of every bind attempted
    ffpStatus,       \* "idle", "running", "returned", "none" or "raised"
    result,          \* <<p>> when find_free_port returned p, else << >>
    listener,        \* <<p>> while the HTTPServer socket is bound to p
    constructed,     \* history: number of HTTPServer(...) calls made
    exitCode,        \* << >> while running, <<n>> once terminated
    printedRange,    \* << >> or the <<lo, hi>> printed by the exhaustion error
    interrupted,     \* history: a KeyboardInterrupt was delivered
    shutdownRequest, \* BaseServer.__shutdown_request
    isShutDown,      \* BaseServer.__is_shut_down (an Event)
    everServing,     \* history: serve_forever was entered
    req,             \* <<r>> while request r waits to be handled
    resp             \* <<x>> once response x was written for the last one

vars == <<pc, caller, indexExists, occupied, startPort, maxAttempts, port,
          outcome, probeSocks, probes, ffpStatus, result, listener,
          constructed, exitCode, printedRange, interrupted, shutdownRequest,
          isShutDown, everServing, req, resp>>

ffpVars == <<startPort, maxAttempts, port, outcome, probeSocks, probes,
             ffpStatus, result>>
srvVars == <<listener, constructed, shutdownRequest, isShutDown, everServing>>
reqVars == <<req, resp>>

-----------------------------------------------------------------------------
(* Configuration *)

PORT == 5173

\* default of find_free_port's start_port parameter
DefaultStartPort == 8000

\* default of find_free_port's max_attempts parameter
DefaultMaxAttempts == 10

\* socket.bind accepts ports 0..65535 and raises OverflowError otherwise
MaxPortNo == 65535

\* bound: the largest max_attempts tried in SpecFFP
MaxAttemptsArg == 3

\* start_port arguments tried in SpecFFP
StartPorts == {0, PORT, MaxPortNo - 1}

\* the call main() makes: find_free_port(PORT)
MainStartPortMut == DefaultStartPort
MainStartPort == PORT

MainMaxAttempts == DefaultMaxAttempts

\* the upper end of the range the exhaustion error prints: PORT+9
PrintedHigh == PORT + 9

\* range(start_port, start_port + max_attempts)
ProbeRange(s, m) == s .. (s + m - 1)

\* exit status of sys.exit when index.html is missing
MissingIndexExitStatus == 1

\* exit status of sys.exit when no port was found
ExhaustionExitStatusMut == 1 - 1
ExhaustionExitStatus == 1

\* exit status of the interpreter when an exception leaves main()
CrashExitStatus == 1

\* exit status of sys.exit in the KeyboardInterrupt handler
InterruptExitStatusMut == 0 + 1
InterruptExitStatus == 0

-----------------------------------------------------------------------------
(* The sockets of the host *)

\* ports this process has bound: the probe socket once its bind succeeded,
\* and the server's socket
Held == {p \in probeSocks : outcome = "ok"}
            \cup {listener[i] : i \in DOMAIN listener}

\* s.bind((HOST, p)) of a fresh socket: port 0 asks for an ephemeral port
BindOutcome(p) ==
    IF p < 0 \/ p > MaxPortNo THEN "overflow"
    ELSE IF p # 0 /\ p \in occupied THEN "oserror"
    ELSE "ok"

\* the ports whose state matters to this run: those the call probes
EnvPorts ==
    {p \in (IF caller = "main" THEN ProbeRange(MainStartPort, MainMaxAttempts)
                               ELSE ProbeRange(startPort, maxAttempts)) :
        p >= 1 /\ p <= MaxPortNo}

\* another process binds a free port
EnvBind ==
    /\ \E p \in EnvPorts \ (occupied \cup Held) :
          occupied' = occupied \cup {p}
    /\ UNCHANGED <<pc, caller, indexExists, ffpVars, srvVars, exitCode,
                   printedRange, interrupted, reqVars>>

\* another process releases a port
EnvRelease ==
    /\ \E p \in occupied : occupied' = occupied \ {p}
    /\ UNCHANGED <<pc, caller, indexExists, ffpVars, srvVars, exitCode,
                   printedRange, interrupted, reqVars>>

-----------------------------------------------------------------------------
(* find_free_port *)

\* for port in range(start_port, start_port + max_attempts): ... return None
FfpLoop ==
    /\ pc = "ffp_loop"
    /\ IF port <= startPort + maxAttempts - 1
       THEN /\ pc' = "ffp_socket"
            /\ UNCHANGED <<ffpStatus, result>>
       ELSE /\ pc' = IF caller = "main" THEN "main_port" ELSE "unit_done"
            /\ ffpStatus' = "none"
            /\ result' = << >>
    /\ UNCHANGED <<caller, indexExists, occupied, startPort, maxAttempts, port,
                   outcome, probeSocks, probes, srvVars, exitCode,
                   printedRange, interrupted, reqVars>>

\* with socket.socket(AF_INET, SOCK_STREAM) as s:
FfpSocket ==
    /\ pc = "ffp_socket"
    /\ probeSocks' = probeSocks \cup {port}
    /\ pc' = "ffp_bind"
    /\ UNCHANGED <<caller, indexExists, occupied, startPort, maxAttempts, port,
                   outcome, probes, ffpStatus, result, srvVars, exitCode,
                   printedRange, interrupted, reqVars>>

\* s.bind((HOST, port))
FfpBind ==
    /\ pc = "ffp_bind"
    /\ outcome' = BindOutcome(port)
    /\ probes' = Append(probes, <<port, BindOutcome(port)>>)
    /\ pc' = "ffp_exit"
    /\ UNCHANGED <<caller, indexExists, occupied, startPort, maxAttempts, port,
                   probeSocks, ffpStatus, result, srvVars, exitCode,
                   printedRange, interrupted, reqVars>>

\* the sockets left open when the with block is left with outcome o
WithExitSocksMut(o) == IF o = "oserror" THEN probeSocks ELSE probeSocks \ {port}
WithExitSocks(o) == probeSocks \ {port}

\* leaving the with block (the socket is closed), then: return port,
\* except OSError: continue, or the exception leaves the function
FfpExit ==
    /\ pc = "ffp_exit"
    /\ probeSocks' = WithExitSocks(outcome)
    /\ outcome' = "-"
    /\ IF outcome = "ok"
       THEN /\ result' = <<port>>
            /\ ffpStatus' = "returned"
            /\ pc' = IF caller = "main" THEN "main_port" ELSE "unit_done"
            /\ port' = port
       ELSE IF outcome = "oserror"
       THEN /\ port' = port + 1
            /\ pc' = "ffp_loop"
            /\ UNCHANGED <<result, ffpStatus>>
       ELSE /\ ffpStatus' = "raised"
            /\ pc' = IF caller = "main" THEN "main_crash" ELSE "unit_done"
            /\ UNCHANGED <<result, port>>
    /\ UNCHANGED <<caller, indexExists, occupied, startPort, maxAttempts,
                   probes, srvVars, exitCode, printedRange, interrupted,
                   reqVars>>

-----------------------------------------------------------------------------
(* main *)

\* if not Path('index.html').exists(): print(...); sys.exit(1)
IndexCheckPassesMut == TRUE
IndexCheckPasses == indexExists

CheckIndex ==
    /\ pc = "main_check"
    /\ IF IndexCheckPasses
       THEN /\ pc' = "main_find"
            /\ UNCHANGED exitCode
       ELSE /\ pc' = "done"
            /\ exitCode' = <<MissingIndexExitStatus>>
    /\ UNCHANGED <<caller, indexExists, occupied, ffpVars, srvVars,
                   printedRange, interrupted, reqVars>>

\* port = find_free_port(PORT): the call
CallFind ==
    /\ pc = "main_find"
    /\ startPort' = MainStartPort
    /\ maxAttempts' = MainMaxAttempts
    /\ port' = MainStartPort
    /\ ffpStatus' = "running"
    /\ pc' = "ffp_loop"
    /\ UNCHANGED <<caller, indexExists, occupied, outcome, probeSocks, probes,
                   result, srvVars, exitCode, printedRange, interrupted,
                   reqVars>>

\* if port is None: print(... {PORT}-{PORT+9}); sys.exit(1)
CheckPort ==
    /\ pc = "main_port"
    /\ IF ffpStatus = "none"
       THEN /\ printedRange' = <<PORT, PrintedHigh>>
            /\ exitCode' = <<ExhaustionExitStatus>>
            /\ pc' = "done"
       ELSE /\ pc' = "main_server"
            /\ UNCHANGED <<printedRange, exitCode>>
    /\ UNCHANGED <<caller, indexExists, occupied, ffpVars, srvVars,
                   interrupted, reqVars>>

\* server = HTTPServer((HOST, port), CustomHandler): the constructor creates
\* the socket, binds it and listens; when the bind fails it closes the
\* socket and the OSError leaves main
Construct ==
    /\ pc = "main_server"
    /\ constructed' = constructed + 1
    /\ IF BindOutcome(result[1]) = "ok"
       THEN /\ listener' = result
            /\ pc' = "main_serve"
       ELSE /\ listener' = << >>
            /\ pc' = "main_crash"
    /\ UNCHANGED <<caller, indexExists, occupied, ffpVars, shutdownRequest,
                   isShutDown, everServing, exitCode, printedRange,
                   interrupted, reqVars>>

\* an exception nothing catches: traceback, exit status 1, and the sockets
\* of the process are closed
Crash ==
    /\ pc = "main_crash"
    /\ exitCode' = <<CrashExitStatus>>
    /\ listener' = << >>
    /\ pc' = "done"
    /\ UNCHANGED <<caller, indexExists, occupied, ffpVars, constructed,
                   shutdownRequest, isShutDown, everServing, printedRange,
                   interrupted, reqVars>>

\* the banner, then server.serve_forever(): self.__is_shut_down.clear()
ServeForever ==
    /\ pc = "main_serve"
    /\ isShutDown' = FALSE
    /\ everServing' = TRUE
    /\ pc' = "serving"
    /\ UNCHANGED <<caller, indexExists, occupied, ffpVars, listener,
                   constructed, shutdownRequest, exitCode, printedRange,
                   interrupted, reqVars>>

\* where a KeyboardInterrupt that leaves serve_forever goes: main's
\* except KeyboardInterrupt clause
InterruptTargetMut == "main_crash"
InterruptTarget == "main_except"

\* KeyboardInterrupt inside serve_forever (in select or in a handler): the
\* finally block of serve_forever resets __shutdown_request and sets
\* __is_shut_down, and main's except clause catches the exception
Interrupt ==
    /\ pc = "serving"
    /\ interrupted' = TRUE
    /\ shutdownRequest' = FALSE
    /\ isShutDown' = TRUE
    /\ pc' = InterruptTarget
    /\ UNCHANGED <<caller, indexExists, occupied, ffpVars, listener,
                   constructed, everServing, exitCode, printedRange, reqVars>>

\* print(...); server.shutdown(): self.__shutdown_request = True
ShutdownRequest ==
    /\ pc = "main_except"
    /\ shutdownRequest' = TRUE
    /\ pc' = "main_wait"
    /\ UNCHANGED <<caller, indexExists, occupied, ffpVars, listener,
                   constructed, isShutDown, everServing, exitCode,
                   printedRange, interrupted, reqVars>>

\* server.shutdown(): self.__is_shut_down.wait() returns once the event is set
ShutdownWait ==
    /\ pc = "main_wait"
    /\ isShutDown
    /\ pc' = "main_exit"
    /\ UNCHANGED <<caller, indexExists, occupied, ffpVars, srvVars, exitCode,
                   printedRange, interrupted, reqVars>>

\* sys.exit(0): the process ends and its sockets are closed
Exit ==
    /\ pc = "main_exit"
    /\ exitCode' = <<InterruptExitStatus>>
    /\ listener' = << >>
    /\ pc' = "done"
    /\ UNCHANGED <<caller, indexExists, occupied, ffpVars, constructed,
                   shutdownRequest, isShutDown, everServing, printedRange,
                   interrupted, reqVars>>

-----------------------------------------------------------------------------
(* The files of the host.  Paths are sequences of names from "/". *)

\* os.getcwd() of the process
Cwd == <<"home", "proj">>

FsDirs == {<< >>, <<"home">>, <<"home", "proj">>, <<"home", "proj", "a">>}

FsFiles == {<<"home", "secret">>, <<"home", "proj", "index.html">>,
            <<"home", "proj", "a", "f">>}

\* symbolic links: where each one points
FsLinks == [l \in {<<"home", "proj", "link">>} |-> <<"home", "secret">>]

IsPrefix(p, q) == Len(p) <= Len(q) /\ SubSeq(q, 1, Len(p)) = p

\* the file or directory the kernel reaches for a path, following symbolic
\* links: [ok, path]
RECURSIVE Walk(_, _)
Walk(cur, rest) ==
    IF rest = << >> THEN [ok |-> TRUE, path |-> cur]
    ELSE LET nxt == Append(cur, Head(rest)) IN
         IF nxt \in DOMAIN FsLinks THEN Walk(FsLinks[nxt], Tail(rest))
         ELSE IF nxt \in FsDirs \/ (nxt \in FsFiles /\ Tail(rest) = << >>)
              THEN Walk(nxt, Tail(rest))
         ELSE [ok |-> FALSE, path |-> nxt]

Resolve(p) == Walk(<< >>, p)

IsDir(p) == Resolve(p).ok /\ Resolve(p).path \in FsDirs
IsFile(p) == Resolve(p).ok /\ Resolve(p).path \in FsFiles

\* a path crosses a symbolic link
ThroughLink(p) == \E n \in 1..Len(p) : SubSeq(p, 1, n) \in DOMAIN FsLinks

-----------------------------------------------------------------------------
(* Requests *)

\* bound: the number of "/"-separated segments of a request path
MaxSegs == 3

\* the segments request paths are made of, as they arrive (still quoted)
RawSegs == {"", ".", "..", "%2e%2e%2fsecret", "a", "f", "link", "secret",
            "index.html"}

\* the last word of the request line; "" is a request line of two words
Versions == {"HTTP/1.0", "HTTP/1.1", "", "FOO/1.0", "HTTP/3.0"}

Commands == {"GET", "HEAD", "POST"}

\* what else a request may be: "long" is a request line of more than 65536
\* bytes, "ims" an If-Modified-Since header not older than the file
Options == {"-", "long", "ims"}

\* abs: the path starts with "/"; a path with no "/" in front has a first
\* segment and it is not empty
AllRequests ==
    {r \in [cmd : Commands, ver : Versions, abs : BOOLEAN, opt : Options,
            segs : UNION {[1..n -> RawSegs] : n \in 0..MaxSegs}] :
        r.abs \/ (Len(r.segs) >= 1 /\ r.segs[1] # "")}

\* the requests that arrive during a run of main()
MainRequests ==
    {[cmd |-> "GET", ver |-> "HTTP/1.1", abs |-> TRUE, opt |-> "-",
      segs |-> <<"index.html">>],
     [cmd |-> "GET", ver |-> "", abs |-> TRUE, opt |-> "-",
      segs |-> <<"..", "secret">>]}

-----------------------------------------------------------------------------
(* CustomHandler and the SimpleHTTPRequestHandler it extends *)

\* BaseHTTPRequestHandler.default_request_version
DefaultRequestVersion == "HTTP/0.9"

\* parse_request: the request version in force and the error sent, if any
ParseRequest(r) ==
    IF r.ver # "" /\ r.ver \notin {"HTTP/1.0", "HTTP/1.1", "HTTP/3.0"}
    THEN [ok |-> FALSE, rv |-> DefaultRequestVersion, code |-> "400"]
    ELSE IF r.ver = "HTTP/3.0"
    THEN [ok |-> FALSE, rv |-> DefaultRequestVersion, code |-> "505"]
    ELSE IF r.ver = "" /\ r.cmd # "GET"
    THEN [ok |-> FALSE, rv |-> DefaultRequestVersion, code |-> "400"]
    ELSE [ok |-> TRUE,
          rv |-> IF r.ver = "" THEN DefaultRequestVersion ELSE r.ver,
          code |-> "-"]

\* send_response_only: the status line goes to the headers buffer
SendResponseOnly(buf, rv, code) ==
    IF rv # "HTTP/0.9" THEN Append(buf, <<"status", code>>) ELSE buf

\* send_header: the header goes to the headers buffer
SendHeader(buf, rv, keyword, value) ==
    IF rv # "HTTP/0.9" THEN Append(buf, <<keyword, value>>) ELSE buf

\* send_response: status line, Server and Date
SendResponse(buf, rv, code) ==
    SendHeader(SendHeader(SendResponseOnly(buf, rv, code), rv, "Server", "-"),
               rv, "Date", "-")

\* BaseHTTPRequestHandler.end_headers: the blank line, and the buffer is
\* written out
BaseEndHeaders(buf, rv) ==
    IF rv # "HTTP/0.9" THEN Append(buf, <<"CRLF", "">>) ELSE buf

\* CustomHandler.end_headers
EndHeadersMut(buf, rv) ==
    BaseEndHeaders(SendHeader(buf, rv, "Access-Control-Allow-Origin", "*"), rv)
EndHeaders(buf, rv) ==
    BaseEndHeaders(
        SendHeader(
            SendHeader(buf, rv, "Access-Control-Allow-Origin", "*"),
            rv, "Cache-Control", "no-store, no-cache, must-revalidate"),
        rv)

NoBody == [kind |-> "none", path |-> << >>]

\* send_error: status line, Connection, Content-Type, Content-Length,
\* end_headers, then the explanation unless the command is HEAD
SendError(r, rv, cmd, code, lex) ==
    [req |-> r, rv |-> rv, status |-> code, lex |-> lex,
     head |-> EndHeaders(
                 SendHeader(
                     SendHeader(
                         SendHeader(SendResponse(<< >>, rv, code),
                                    rv, "Connection", "close"),
                         rv, "Content-Type", "text/html;charset=utf-8"),
                     rv, "Content-Length", "-"),
                 rv),
     body |-> IF cmd # "HEAD" THEN [kind |-> "error", path |-> << >>]
              ELSE NoBody]

\* urllib.parse.unquote on one segment: "%2e" is ".", "%2f" is "/"
Unquote(seg) == IF seg = "%2e%2e%2fsecret" THEN <<"..", "secret">> ELSE <<seg>>

RECURSIVE UnquoteAll(_)
UnquoteAll(segs) ==
    IF segs = << >> THEN << >> ELSE Unquote(Head(segs)) \o UnquoteAll(Tail(segs))

\* posixpath.normpath on the components of a path
RECURSIVE NormPath(_, _, _)
NormPath(comps, acc, abs) ==
    IF comps = << >> THEN acc
    ELSE LET c == Head(comps) IN
         IF c \in {"", "."} THEN NormPath(Tail(comps), acc, abs)
         ELSE IF c # ".." \/ (~abs /\ acc = << >>)
                 \/ (acc # << >> /\ acc[Len(acc)] = "..")
              THEN NormPath(Tail(comps), Append(acc, c), abs)
         ELSE IF acc # << >>
              THEN NormPath(Tail(comps), SubSeq(acc, 1, Len(acc) - 1), abs)
         ELSE NormPath(Tail(comps), acc, abs)

\* the directory CustomHandler.__init__ hands to SimpleHTTPRequestHandler
DirectoryMut == SubSeq(Cwd, 1, Len(Cwd) - 1)
Directory == Cwd

NotSimpleName(w) == w \in {".", ".."}

\* translate_path: the directory, then the words of the normalised path
\* that are simple names
TranslatePath(r) ==
    Directory \o SelectSeq(NormPath(UnquoteAll(r.segs), << >>, r.abs),
                           LAMBDA w : ~NotSimpleName(w))

\* the request path ends with "/"
TrailingSlash(r) ==
    IF r.segs = << >> THEN r.abs ELSE r.segs[Len(r.segs)] = ""

\* send_response(OK), Content-type, Content-Length, Last-Modified,
\* end_headers; the body is copied from the open file unless the command
\* is HEAD
SendFile(r, rv, lex, real) ==
    [req |-> r, rv |-> rv, status |-> "200", lex |-> lex,
     head |-> EndHeaders(
                 SendHeader(
                     SendHeader(
                         SendHeader(SendResponse(<< >>, rv, "200"),
                                    rv, "Content-type", "-"),
                         rv, "Content-Length", "-"),
                     rv, "Last-Modified", "-"),
                 rv),
     body |-> IF r.cmd # "HEAD" THEN [kind |-> "file", path |-> real]
              ELSE NoBody]

\* list_directory: send_response(OK), Content-type, Content-Length,
\* end_headers; the body is the list of the names in the directory
SendListing(r, rv, lex, real) ==
    [req |-> r, rv |-> rv, status |-> "200", lex |-> lex,
     head |-> EndHeaders(
                 SendHeader(
                     SendHeader(SendResponse(<< >>, rv, "200"),
                                rv, "Content-type", "-"),
                     rv, "Content-Length", "-"),
                 rv),
     body |-> IF r.cmd # "HEAD" THEN [kind |-> "listing", path |-> real]
              ELSE NoBody]

\* send_response(NOT_MODIFIED), end_headers
SendNotModified(r, rv, lex) ==
    [req |-> r, rv |-> rv, status |-> "304", lex |-> lex,
     head |-> EndHeaders(SendResponse(<< >>, rv, "304"), rv),
     body |-> NoBody]

\* the file is open: 304 when If-Modified-Since allows it, else the file
SendOpened(r, rv, lex) ==
    IF r.opt = "ims" THEN SendNotModified(r, rv, lex)
    ELSE SendFile(r, rv, lex, Resolve(lex).path)

\* send_response(MOVED_PERMANENTLY), Location, Content-Length, end_headers
SendRedirect(r, rv, lex) ==
    [req |-> r, rv |-> rv, status |-> "301", lex |-> lex,
     head |-> EndHeaders(
                 SendHeader(
                     SendHeader(SendResponse(<< >>, rv, "301"),
                                rv, "Location", "-"),
                     rv, "Content-Length", "0"),
                 rv),
     body |-> NoBody]

\* send_head, then do_GET's copyfile
SendHead(r, rv) ==
    LET lex == TranslatePath(r)
        index == Append(lex, "index.html")
    IN  IF IsDir(lex)
        THEN IF ~TrailingSlash(r) THEN SendRedirect(r, rv, lex)
             ELSE IF IsFile(index)
                  THEN SendOpened(r, rv, index)
             ELSE SendListing(r, rv, lex, Resolve(lex).path)
        ELSE IF TrailingSlash(r) THEN SendError(r, rv, r.cmd, "404", lex)
        ELSE IF IsFile(lex)
             THEN SendOpened(r, rv, lex)
        ELSE SendError(r, rv, r.cmd, "404", lex)

\* handle_one_request: 414 for a request line too long (request_version
\* and command are then ''), parse_request, then do_GET or do_HEAD, or 501
Respond(r) ==
    LET p == ParseRequest(r) IN
    IF r.opt = "long" THEN SendError(r, "", "", "414", << >>)
    ELSE IF ~p.ok THEN SendError(r, p.rv, "-", p.code, << >>)
    ELSE IF r.cmd \notin {"GET", "HEAD"}
         THEN SendError(r, p.rv, r.cmd, "501", << >>)
    ELSE SendHead(r, p.rv)

\* a client connects and sends a request
Arrive ==
    /\ pc = "serving"
    /\ req = << >>
    /\ \E r \in MainRequests : req' = <<r>>
    /\ resp' = << >>
    /\ UNCHANGED <<pc, caller, indexExists, occupied, ffpVars, srvVars,
                   exitCode, printedRange, interrupted>>

\* serve_forever: _handle_request_noblock, CustomHandler handles the request
HandleRequest ==
    /\ pc = "serving"
    /\ req # << >>
    /\ resp' = <<Respond(req[1])>>
    /\ req' = << >>
    /\ UNCHANGED <<pc, caller, indexExists, occupied, ffpVars, srvVars,
                   exitCode, printedRange, interrupted>>

\* what the server does when the handler raises an Exception (the client
\* went away, the log line could not be printed): handle_error reports it,
\* the connection is closed and the loop goes on
HandleError ==
    /\ pc = "serving"
    /\ req # << >>
    /\ resp' = <<[req |-> << >>, rv |-> "-", status |-> "aborted",
                   lex |-> << >>, head |-> << >>, body |-> NoBody]>>
    /\ req' = << >>
    /\ UNCHANGED <<pc, caller, indexExists, occupied, ffpVars, srvVars,
                   exitCode, printedRange, interrupted>>

-----------------------------------------------------------------------------
(* Specifications *)

InitCommon ==
    /\ occupied \in SUBSET EnvPorts
    /\ outcome = "-"
    /\ probeSocks = {}
    /\ probes = << >>
    /\ result = << >>
    /\ listener = << >>
    /\ constructed = 0
    /\ exitCode = << >>
    /\ printedRange = << >>
    /\ interrupted = FALSE
    /\ shutdownRequest = FALSE
    /\ isShutDown = FALSE
    /\ everServing = FALSE
    /\ req = << >>
    /\ resp = << >>

Init ==
    /\ pc = "main_check"
    /\ caller = "main"
    /\ indexExists \in BOOLEAN
    /\ startPort = 0
    /\ maxAttempts = 0
    /\ port = 0
    /\ ffpStatus = "idle"
    /\ InitCommon

Next ==
    \/ EnvBind
    \/ EnvRelease
    \/ CheckIndex
    \/ CallFind
    \/ FfpLoop
    \/ FfpSocket
    \/ FfpBind
    \/ FfpExit
    \/ CheckPort
    \/ Construct
    \/ Crash
    \/ ServeForever
    \/ Interrupt
    \/ ShutdownRequest
    \/ ShutdownWait
    \/ Arrive
    \/ HandleRequest
    \/ HandleError
    \/ Exit

Spec == Init /\ [][Next]_vars

\* the process's own steps go on as long as they can; interrupts, requests
\* and the other processes are under no obligation
ProcessStep ==
    \/ CheckIndex \/ CallFind \/ FfpLoop \/ FfpSocket \/ FfpBind \/ FfpExit
    \/ CheckPort \/ Construct \/ Crash \/ ServeForever \/ ShutdownRequest
    \/ ShutdownWait \/ Exit

FairSpec == Spec /\ WF_vars(ProcessStep)

\* one call find_free_port(start_port, max_attempts)
InitFFP ==
    /\ pc = "ffp_loop"
    /\ caller = "unit"
    /\ indexExists = TRUE
    /\ startPort \in StartPorts
    /\ maxAttempts \in 0..MaxAttemptsArg
    /\ port = startPort
    /\ ffpStatus = "running"
    /\ InitCommon

NextFFP ==
    \/ EnvBind
    \/ EnvRelease
    \/ FfpLoop
    \/ FfpSocket
    \/ FfpBind
    \/ FfpExit

SpecFFP == InitFFP /\ [][NextFFP]_vars

\* the handler applied to one request, the server serving on PORT
InitReq ==
    /\ pc = "serving"
    /\ caller = "main"
    /\ indexExists = TRUE
    /\ occupied = {}
    /\ startPort = MainStartPort
    /\ maxAttempts = MainMaxAttempts
    /\ port = MainStartPort
    /\ outcome = "-"
    /\ probeSocks = {}
    /\ probes = <<<<MainStartPort, "ok">>>>
    /\ ffpStatus = "returned"
    /\ result = <<MainStartPort>>
    /\ listener = <<MainStartPort>>
    /\ constructed = 1
    /\ exitCode = << >>
    /\ printedRange = << >>
    /\ interrupted = FALSE
    /\ shutdownRequest = FALSE
    /\ isShutDown = FALSE
    /\ everServing = TRUE
    /\ req \in {<<r>> : r \in AllRequests}
    /\ resp = << >>

NextReq ==
    \/ HandleRequest
    \/ HandleError

SpecReq == InitReq /\ [][NextReq]_vars

-----------------------------------------------------------------------------
(* Properties *)

Terminated == exitCode # << >>

\* a response was written (the handler did not raise)
Responded == resp # << >> /\ resp[1].status # "aborted"

ProbedPorts == {probes[i][1] : i \in DOMAIN probes}

\* the probes made so far went up from start_port one port at a time
Ascending == \A i \in DOMAIN probes : probes[i][1] = startPort + i - 1

AllFailedBefore(n) == \A i \in 1..(n - 1) : probes[i][2] # "ok"

\* C1: when a call find_free_port(start_port, max_attempts) ends, it has
\* returned: either the lowest port of the range whose bind succeeded, having
\* probed in ascending order and no port above it, or None, every port of
\* the range having failed to bind.
C1_FindFreePortReturns ==
    pc = "unit_done" =>
        /\ Ascending
        /\ \/ /\ ffpStatus = "returned"
              /\ Len(probes) >= 1
              /\ probes[Len(probes)] = <<result[1], "ok">>
              /\ AllFailedBefore(Len(probes))
              /\ result[1] \in ProbeRange(startPort, maxAttempts)
           \/ /\ ffpStatus = "none"
              /\ Len(probes) = maxAttempts
              /\ AllFailedBefore(Len(probes) + 1)

\* C2: without index.html the process makes no probe, opens no socket,
\* constructs no server, and ends with exit status 1.
C2_MissingIndexExitsBeforeAnySocket ==
    ~indexExists =>
        /\ pc \in {"main_check", "done"}
        /\ ffpStatus = "idle"
        /\ probes = << >>
        /\ probeSocks = {}
        /\ listener = << >>
        /\ constructed = 0
        /\ ~everServing
        /\ (pc = "done" => exitCode = <<1>>)

\* the ports are all free and yet the run ended at the missing index.html
C2_Witness ==
    ~indexExists /\ pc = "done" /\ exitCode = <<1>> /\ occupied = {}

\* C3: when index.html exists and find_free_port returned None, the process
\* ends with exit status 1, no server constructed, never serving, no socket
\* open.
C3_ExhaustionExitsWithoutServer ==
    (indexExists /\ ffpStatus = "none") =>
        /\ pc \in {"main_port", "done"}
        /\ constructed = 0
        /\ ~everServing
        /\ listener = << >>
        /\ probeSocks = {}
        /\ (pc = "done" => exitCode = <<1>>)

\* all ten ports were probed and failed, and the run ended
C3_Witness ==
    /\ indexExists /\ ffpStatus = "none" /\ pc = "done"
    /\ Len(probes) = DefaultMaxAttempts

\* C4: with index.html present and a port returned by find_free_port, the
\* process gets to serve, on that port, whatever other processes do with
\* the ports in between: it never ends without having served.
C4_StartupSucceedsOnReturnedPort ==
    /\ (indexExists /\ ffpStatus = "returned" /\ Terminated) => everServing
    /\ pc = "serving" => listener = result

\* both headers are in the block, ahead of the blank line that ends it
BothBeforeEnd(head) ==
    /\ head # << >>
    /\ head[Len(head)] = <<"CRLF", "">>
    /\ \E i, j \in 1..(Len(head) - 1) :
          /\ head[i] = <<"Access-Control-Allow-Origin", "*">>
          /\ head[j] = <<"Cache-Control", "no-store, no-cache, must-revalidate">>

\* C5 as stated: every response carries both headers, added before the
\* header block is ended.
C5_EveryResponseHasBothHeaders ==
    Responded => BothBeforeEnd(resp[1].head)

\* C5 as amended: every response that has a header block carries both
\* headers, added before the header block is ended; a response to a request
\* line with a valid HTTP/1.x version has one; a response to a request line
\* of acceptable length with no version, a malformed version or a version
\* of 2.0 or more is sent in HTTP/0.9 style, with no status line and no
\* header at all.
C5_HeaderBlocksHaveBothHeaders ==
    Responded =>
        /\ resp[1].head # << >> => BothBeforeEnd(resp[1].head)
        /\ resp[1].req.ver \in {"HTTP/1.0", "HTTP/1.1"} => resp[1].head # << >>
        /\ (resp[1].req.ver \notin {"HTTP/1.0", "HTTP/1.1"}
                /\ resp[1].req.opt # "long") => resp[1].head = << >>

\* a not-found response and a file response, each with its header block
C5_Witness ==
    /\ Responded
    /\ resp[1].status = "404"
    /\ resp[1].req.segs = <<"..", "secret">>
    /\ BothBeforeEnd(resp[1].head)

UnderRoot(p) == IsPrefix(Cwd, p)

\* C7 as stated: the content of a response is read from a file located
\* under the serving root.
C7_ContentOnlyFromUnderRoot ==
    (Responded /\ resp[1].body.kind = "file") => UnderRoot(resp[1].body.path)

\* C7 as amended: for every request path, parent-directory references
\* included (spelled out or percent-encoded), the path the handler opens is
\* the serving root followed by simple names, none of them "." or "..";
\* what a response contains comes from outside the serving root only when
\* that path crosses a symbolic link stored under the serving root.
C7_OpenedPathUnderRoot ==
    (Responded /\ resp[1].status \in {"200", "301", "304", "404"}) =>
        /\ UnderRoot(resp[1].lex)
        /\ \A i \in DOMAIN resp[1].lex : ~NotSimpleName(resp[1].lex[i])
        /\ (resp[1].body.kind \in {"file", "listing"}
                /\ ~UnderRoot(resp[1].body.path))
            => ThroughLink(resp[1].lex)

\* a request that climbs out of the root by name is answered 404
C7_Witness ==
    /\ Responded
    /\ resp[1].req.abs
    /\ resp[1].req.segs = <<"a", "..", "%2e%2e%2fsecret">>
    /\ resp[1].status = "404"
    /\ resp[1].lex = Cwd \o <<"secret">>

Lifecycle ==
    IF pc = "serving" THEN "Listening"
    ELSE IF pc \in {"main_except", "main_wait", "main_exit"} THEN "ShuttingDown"
    ELSE IF pc = "done" THEN "Stopped"
    ELSE "Unstarted"

LifecycleStep ==
    /\ Lifecycle' # Lifecycle =>
          <<Lifecycle, Lifecycle'>> \in
              {<<"Unstarted", "Listening">>, <<"Unstarted", "Stopped">>,
               <<"Listening", "ShuttingDown">>, <<"ShuttingDown", "Stopped">>}
    /\ (Lifecycle # "Listening" /\ Lifecycle' = "Listening") =>
          listener' = result /\ listener' # << >> /\ constructed' = 1
    /\ (Lifecycle = "Listening" /\ Lifecycle' # "Listening") =>
          ~interrupted /\ interrupted'
    /\ (Lifecycle = "ShuttingDown" /\ Lifecycle' = "Stopped") =>
          exitCode' = <<0>>
    /\ (req' # req \/ resp' # resp) =>
          Lifecycle' = Lifecycle /\ exitCode' = exitCode /\ Lifecycle = "Listening"

\* C8: the lifecycle only moves forward; Listening is entered only with the
\* server's socket bound; the only way out of Listening is an interrupt, to
\* ShuttingDown and then Stopped with exit status 0; a request, answered or
\* failed in the handler, changes neither the lifecycle nor the exit status.
C8_LifecycleOnlyForward == [][LifecycleStep]_vars

\* a handler raised, and the server went on serving
C8_Witness ==
    /\ pc = "serving"
    /\ everServing
    /\ resp # << >>
    /\ resp[1].status = "aborted"

\* C9: the process holds at most one socket at a time: a probe socket is
\* open only between its creation and the end of its with block, none is
\* open when find_free_port has returned or when the server's socket
\* exists, and the server is constructed at most once.
C9_AtMostOneSocket ==
    /\ Cardinality(probeSocks) + Len(listener) <= 1
    /\ pc \notin {"ffp_bind", "ffp_exit"} => probeSocks = {}
    /\ constructed <= 1

\* a second probe is open after the first one failed and was closed
C9_Witness ==
    /\ pc = "ffp_exit"
    /\ Len(probes) = 2
    /\ probes[1][2] = "oserror"
    /\ probeSocks = {PORT + 1}

\* C10: main() probes from 5173 with a budget of 10: every port probed or
\* bound is in 5173..5182, the default start 8000 is never used, and the
\* range the exhaustion error prints is the set of ports probed.
C10_ProbesWithinPrintedRange ==
    /\ ffpStatus # "idle" =>
          /\ startPort = PORT
          /\ startPort # DefaultStartPort
          /\ maxAttempts = 10
    /\ ProbedPorts \subseteq PORT..(PORT + 9)
    /\ \A i \in DOMAIN listener : listener[i] \in PORT..(PORT + 9)
    /\ printedRange # << >> =>
          ProbedPorts = printedRange[1]..printedRange[2]

\* the exhaustion error was printed
C10_Witness ==
    /\ printedRange = <<5173, 5182>>
    /\ pc = "done"

====
